---- MODULE Spec2Model ----
(***************************************************************************)
(* Model of order_book_analysis.cpp: the MBP-10 ingestion filter           *)
(* (OrderBookAnalyzer::loadData), the snapshot accessors                   *)
(* (OrderBookSnapshot::getMidPrice, getTotalBidDepth, getTotalAskDepth)    *)
(* and the impact curve builder                                            *)
(* (OrderBookAnalyzer::calculateTemporaryImpact), reached either through   *)
(* analyzeSymbol (load, then a "buy" and a "sell" curve) or by a direct    *)
(* call of the public method with caller-supplied arguments.               *)
(*                                                                         *)
(* Prices are integers (ticks).  Values the program holds in a double are  *)
(* exact rationals [n, d] here, so rounding in the last bits is not        *)
(* modelled; a division by zero gives d = 0 (inf / nan), as it does for a  *)
(* double, and stops nothing.  The timestamp and date strings of a         *)
(* snapshot are never read by the code modelled and are left out.          *)
(***************************************************************************)
EXTENDS Integers, Sequences, FiniteSets, TLC

(***************************************************************************)
(* Bounds of the model.                                                    *)
(***************************************************************************)
\* levels per side of an ingested row (10 in the source, resize(10))
NumLevels == 3
\* snapshots loadData stores at most (3 files x 10000 rows in the source)
MaxSnapshots == 2
\* order sizes of the default sweep of analyzeSymbol (500 / 10 in the source)
\* and of the largest direct call
MaxSteps == 2

(***************************************************************************)
(* Program constants.                                                      *)
(***************************************************************************)
\* mutant: the sweep starts at order size 0
FirstSize_Zero == 10 - 10

\* for (int order_size = 10; ...
FirstSize == 10
\* ... order_size += 10)
StepSize == 10
\* avg_impact * 10000.0
BpsFactor == 10000

\* int max_shares = 500, scaled to the bound on the number of order sizes
DefaultMaxShares == StepSize * MaxSteps

Min(a, b) == IF a <= b THEN a ELSE b
Max(a, b) == IF a >= b THEN a ELSE b
Abs(a) == IF a < 0 THEN -a ELSE a
Sgn(a) == IF a < 0 THEN -1 ELSE IF a > 0 THEN 1 ELSE 0

(***************************************************************************)
(* Exact rationals standing for the doubles of the program.                *)
(***************************************************************************)
RECURSIVE GCD(_, _)
GCD(a, b) == IF b = 0 THEN a ELSE GCD(b, a % b)

Rat(n, d) ==
    IF d = 0 THEN [n |-> Sgn(n), d |-> 0]
    ELSE LET g == GCD(Abs(n), Abs(d))
         IN  [n |-> Sgn(d) * (n \div g), d |-> Abs(d) \div g]

RatInt(i) == [n |-> i, d |-> 1]
RatAdd(a, b) == Rat(a.n * b.d + b.n * a.d, a.d * b.d)
RatSub(a, b) == Rat(a.n * b.d - b.n * a.d, a.d * b.d)
RatMul(a, b) == Rat(a.n * b.n, a.d * b.d)
RatDiv(a, b) == Rat(a.n * b.d, a.d * b.n)
\* comparisons of finite values (d > 0); a value with d = 0 compares FALSE
RatLeq(a, b) == a.d > 0 /\ b.d > 0 /\ a.n * b.d <= b.n * a.d
RatLt(a, b) == a.d > 0 /\ b.d > 0 /\ a.n * b.d < b.n * a.d

RECURSIVE RatSum(_)
RatSum(s) == IF s = <<>> THEN RatInt(0) ELSE RatAdd(s[1], RatSum(Tail(s)))

(***************************************************************************)
(* OrderBookLevel and OrderBookSnapshot.                                   *)
(***************************************************************************)
Level(p, s) == [price |-> p, size |-> s]

\* OrderBookLevel::isValid
isValid(level) == level.price > 0 /\ level.size > 0

\* OrderBookSnapshot::getMidPrice
getMidPrice(snapshot) ==
    IF /\ snapshot.bids # <<>>
       /\ snapshot.asks # <<>>
       /\ snapshot.bids[1].price > 0
       /\ snapshot.asks[1].price > 0
    THEN Rat(snapshot.bids[1].price + snapshot.asks[1].price, 2)
    ELSE RatInt(0)

\* std::accumulate(begin, end, 0, sum + level.size)
RECURSIVE SumSizes(_)
SumSizes(levels) ==
    IF levels = <<>> THEN 0 ELSE levels[1].size + SumSizes(Tail(levels))

\* OrderBookSnapshot::getTotalBidDepth
getTotalBidDepth(snapshot) == SumSizes(snapshot.bids)

\* OrderBookSnapshot::getTotalAskDepth
getTotalAskDepth(snapshot) == SumSizes(snapshot.asks)

(***************************************************************************)
(* CSV rows read by loadData.  A token is empty, a number, or text that    *)
(* std::stod / std::stoi reject.                                           *)
(***************************************************************************)
EmptyTok == [k |-> "empty", v |-> 0]
BadTok == [k |-> "bad", v |-> 0]
Num(x) == [k |-> "num", v |-> x]

Cell(bpx, bsz, apx, asz) ==
    [bid_px |-> bpx, bid_sz |-> bsz, ask_px |-> apx, ask_sz |-> asz]

\* tokens.size() < 71U for 10 levels: the last column read is 16 + 6 * 9
MinCols == 11 + 6 * NumLevels

\* tokens of a best level: a valid one, one with no size, one with no price
BestToks == { <<Num(100), Num(5)>>, <<Num(101), EmptyTok>>, <<EmptyTok, Num(5)>> }
\* tokens of the deeper levels: absent, or resting liquidity
DeepToks == { <<EmptyTok, EmptyTok>>, <<Num(102), Num(6)>> }

FullRows ==
    { [ncols |-> MinCols,
       cells |-> [i \in 1..NumLevels |->
                    IF i = 1 THEN Cell(bb[1], bb[2], ba[1], ba[2])
                             ELSE Cell(db[1], db[2], da[1], da[2])]] :
      bb \in BestToks, ba \in BestToks, db \in DeepToks, da \in DeepToks }

ShortRow ==
    [ncols |-> MinCols - 1,
     cells |-> [i \in 1..NumLevels |-> Cell(Num(100), Num(5), Num(100), Num(5))]]

BadRow ==
    [ncols |-> MinCols,
     cells |-> [i \in 1..NumLevels |->
                  IF i = 1 THEN Cell(Num(100), BadTok, Num(100), Num(5))
                           ELSE Cell(EmptyTok, EmptyTok, EmptyTok, EmptyTok)]]

Rows == FullRows \cup {ShortRow, BadRow}

\* std::stod / std::stoi throw on a token that is no number
Throws(row) ==
    \E i \in 1..NumLevels :
        \E t \in {row.cells[i].bid_px, row.cells[i].bid_sz,
                  row.cells[i].ask_px, row.cells[i].ask_sz} : t.k = "bad"

\* a field keeps its default 0 unless its token is non-empty
Parsed(tok) == IF tok.k = "num" THEN tok.v ELSE 0

\* snapshot.bids.resize(10); snapshot.asks.resize(10); the parse loop
ParseRow(row) ==
    [bids |-> [i \in 1..NumLevels |->
                 Level(Parsed(row.cells[i].bid_px), Parsed(row.cells[i].bid_sz))],
     asks |-> [i \in 1..NumLevels |->
                 Level(Parsed(row.cells[i].ask_px), Parsed(row.cells[i].ask_sz))]]

\* if (snapshot.bids[0].price > 0 && snapshot.asks[0].price > 0)
StoreFilter(snapshot) ==
    snapshot.bids[1].price > 0 /\ snapshot.asks[1].price > 0

(***************************************************************************)
(* Arguments of a direct call of calculateTemporaryImpact.                 *)
(***************************************************************************)
\* two valid levels, a level with no price, one with no size, one with a
\* negative size (std::stoi reads "-5")
LevelVals ==
    { Level(100, 5), Level(102, 6), Level(0, 5), Level(101, 0), Level(101, -5) }

Books(k) == UNION { [1..n -> LevelVals] : n \in 0..k }

\* one side up to NumLevels deep, the other at most its best level
CallerSnapshots ==
    { [bids |-> b, asks |-> a] : b \in Books(NumLevels), a \in Books(1) }
    \cup { [bids |-> b, asks |-> a] : b \in Books(1), a \in Books(NumLevels) }

CallerCollections == { <<>> } \cup { <<s>> : s \in CallerSnapshots }

\* "buy", "sell", and a string that is neither
Sides == { "buy", "sell", "Buy" }

\* max_shares of a direct call: negative, zero, just below the first size,
\* and a value that is no multiple of the step
MaxSharesVals == { -10, 0, 9, StepSize * MaxSteps + 5 }

(***************************************************************************)
(* calculateTemporaryImpact: the pieces of the loop body.                  *)
(***************************************************************************)
\* mutant: the loop runs one step past max_shares
LoopCond_OneMore(size, max) == size <= max + StepSize

\* order_size <= max_shares
LoopCond(size, max) == size <= max

\* mutant: the loop advances by half a step
NextSize_Half(size) == size + 5

\* order_size += 10
NextSize(size) == size + StepSize

\* if (mid_price <= 0) continue;
SkipSnapshot(mid) == ~ RatLt(RatInt(0), mid)

\* mutant: the two branches of the walk exchanged
ConsumedSide_Swapped(snapshot, sd) ==
    IF sd = "buy" THEN snapshot.bids ELSE snapshot.asks

\* mutant: a side that is neither "buy" nor "sell" walks no levels
ConsumedSide_Strict(snapshot, sd) ==
    IF sd = "buy" THEN snapshot.asks
    ELSE IF sd = "sell" THEN snapshot.bids ELSE <<>>

\* if (side == "buy") snapshot.asks else snapshot.bids
ConsumedSide(snapshot, sd) ==
    IF sd = "buy" THEN snapshot.asks ELSE snapshot.bids

\* mutant: the walk stops on remaining alone and runs through invalid levels
StopWalk_NoValidity(remaining, level) == remaining <= 0

\* if (remaining <= 0 || level.price <= 0 || level.size <= 0) break;
StopWalk(remaining, level) ==
    remaining <= 0 \/ level.price <= 0 \/ level.size <= 0

\* int take = std::min(remaining, level.size);
Take(remaining, level) == Min(remaining, level.size)

\* mutant: the whole level is charged, not the part taken
CostOf_FullLevel(take, level) == level.size * level.price

\* total_cost += static_cast<double>(take) * level.price;
CostOf(take, level) == take * level.price

\* the range-for over the levels of the consumed side
RECURSIVE WalkLevels(_, _, _)
WalkLevels(levels, i, acc) ==
    IF i > Len(levels) THEN acc
    ELSE IF StopWalk(acc.remaining, levels[i]) THEN acc
    ELSE LET take == Take(acc.remaining, levels[i])
         IN  WalkLevels(levels, i + 1,
                 [remaining |-> acc.remaining - take,
                  total_cost |-> acc.total_cost + CostOf(take, levels[i]),
                  total_shares |-> acc.total_shares + take])

\* mutant: a walk that filled nothing is averaged in as well
Contributes_Zero(total_shares) == total_shares >= 0

\* if (total_shares > 0)
Contributes(total_shares) == total_shares > 0

\* mutant: the sign conventions of the two sides exchanged
Impact_Swapped(sd, avg_price, mid_price) ==
    IF sd = "buy" THEN RatDiv(RatSub(mid_price, avg_price), mid_price)
    ELSE RatDiv(RatSub(avg_price, mid_price), mid_price)

\* impact = (avg_price - mid_price) / mid_price, or (mid_price - avg_price) / mid_price
Impact(sd, avg_price, mid_price) ==
    IF sd = "buy" THEN RatDiv(RatSub(avg_price, mid_price), mid_price)
    ELSE RatDiv(RatSub(mid_price, avg_price), mid_price)

\* if (!impacts.empty())
EmitCond(imps) == imps # <<>>

\* results.push_back({order_size, avg_impact, avg_impact * 10000.0})
Emit(res, size, imps) ==
    LET avg_impact == RatDiv(RatSum(imps), RatInt(Len(imps)))
    IN  Append(res, [order_size |-> size,
                     avg_impact |-> avg_impact,
                     impact_bps |-> RatMul(avg_impact, RatInt(BpsFactor))])

(***************************************************************************)
(* State.                                                                  *)
(***************************************************************************)
VARIABLES
    pc,          \* position: "start", "load", "inner", "return", "done", "failed", "error"
    caller,      \* "none", "analyzeSymbol" or "direct": who called the curve builder
    data,        \* the snapshots loadData has stored for the symbol
    stats,       \* valid_snapshots, total_bid_depth, total_ask_depth of analyzeSymbol
    snapshots,   \* calculateTemporaryImpact: parameter snapshots
    side,        \* parameter side
    max_shares,  \* parameter max_shares
    order_size,  \* loop variable of the outer for
    idx,         \* position of the range-for over snapshots (1-based)
    impacts,     \* std::vector<double> impacts of the current order size
    results,     \* std::vector<ImpactResult> results
    sims,        \* record of the loop bodies run in this call, with their locals
    aggregates,  \* record of the order sizes finished in this call, with their impacts
    buy_impact,  \* analyzeSymbol: auto buy_impact
    sell_impact  \* analyzeSymbol: auto sell_impact

vars == << pc, caller, data, stats, snapshots, side, max_shares, order_size,
           idx, impacts, results, sims, aggregates, buy_impact, sell_impact >>

NoStats == [valid_snapshots |-> 0, total_bid_depth |-> 0, total_ask_depth |-> 0]

Init ==
    /\ pc = "start"
    /\ caller = "none"
    /\ data = <<>>
    /\ stats = NoStats
    /\ snapshots = <<>>
    /\ side = "buy"
    /\ max_shares = 0
    /\ order_size = 0
    /\ idx = 1
    /\ impacts = <<>>
    /\ results = <<>>
    /\ sims = <<>>
    /\ aggregates = <<>>
    /\ buy_impact = <<>>
    /\ sell_impact = <<>>

\* entry of calculateTemporaryImpact(snaps, sd, max): results empty, order_size = 10
EnterCurve(snaps, sd, max) ==
    /\ snapshots' = snaps
    /\ side' = sd
    /\ max_shares' = max
    /\ order_size' = FirstSize
    /\ idx' = 1
    /\ impacts' = <<>>
    /\ results' = <<>>
    /\ sims' = <<>>
    /\ aggregates' = <<>>
    /\ pc' = IF LoopCond(FirstSize, max) THEN "inner" ELSE "return"

(***************************************************************************)
(* loadData.                                                               *)
(***************************************************************************)
\* fs::directory_iterator(symbol_folder) throws when the folder is missing;
\* nothing catches it before main, which prints the error and returns 1
LoadDirMissing ==
    /\ pc = "start"
    /\ pc' = "error"
    /\ UNCHANGED << caller, data, stats, snapshots, side, max_shares, order_size,
                    idx, impacts, results, sims, aggregates, buy_impact, sell_impact >>

\* one iteration of while (std::getline(file, line) && rows_loaded < 10000)
LoadRow(row) ==
    /\ pc \in {"start", "load"}
    /\ Len(data) < MaxSnapshots
    /\ pc' = "load"
    /\ data' = IF row.ncols < MinCols THEN data
               ELSE IF Throws(row) THEN data
               ELSE IF StoreFilter(ParseRow(row)) THEN Append(data, ParseRow(row))
               ELSE data
    /\ UNCHANGED << caller, stats, snapshots, side, max_shares, order_size,
                    idx, impacts, results, sims, aggregates, buy_impact, sell_impact >>

\* the statistics loop of analyzeSymbol
RECURSIVE Statistics(_)
Statistics(snaps) ==
    IF snaps = <<>> THEN NoStats
    ELSE LET rest == Statistics(Tail(snaps))
             s == snaps[1]
         IN  IF RatLt(RatInt(0), getMidPrice(s))
             THEN [valid_snapshots |-> rest.valid_snapshots + 1,
                   total_bid_depth |-> rest.total_bid_depth + getTotalBidDepth(s),
                   total_ask_depth |-> rest.total_ask_depth + getTotalAskDepth(s)]
             ELSE rest

\* end of the files: loadData returns false on an empty collection and
\* analyzeSymbol gives up; otherwise analyzeSymbol computes its statistics and
\* calls calculateTemporaryImpact(snapshots, "buy")
LoadDone ==
    /\ pc \in {"start", "load"}
    /\ IF data = <<>>
       THEN /\ pc' = "failed"
            /\ UNCHANGED << caller, stats, snapshots, side, max_shares, order_size,
                            idx, impacts, results, sims, aggregates >>
       ELSE /\ caller' = "analyzeSymbol"
            /\ stats' = Statistics(data)
            /\ EnterCurve(data, "buy", DefaultMaxShares)
    /\ UNCHANGED << data, buy_impact, sell_impact >>

(***************************************************************************)
(* calculateTemporaryImpact.                                               *)
(***************************************************************************)
\* a caller other than analyzeSymbol calls the public method
DirectCall(snaps, sd, max) ==
    /\ pc = "start"
    /\ caller' = "direct"
    /\ EnterCurve(snaps, sd, max)
    /\ UNCHANGED << data, stats, buy_impact, sell_impact >>

\* mutant: remaining is not reset per snapshot, so within one order size a
\* walk starts from what the walk before it left over
InitialWalk_Carry(size) ==
    [remaining |-> IF sims # <<>> /\ sims[Len(sims)].order_size = size
                   THEN sims[Len(sims)].remaining ELSE size,
     total_cost |-> 0, total_shares |-> 0]

\* double total_cost = 0.0; int total_shares = 0; int remaining = order_size;
InitialWalk(size) == [remaining |-> size, total_cost |-> 0, total_shares |-> 0]

\* the body of for (const auto& snapshot : snapshots)
ProcessSnapshot ==
    /\ pc = "inner"
    /\ idx <= Len(snapshots)
    /\ LET snapshot == snapshots[idx]
           mid_price == getMidPrice(snapshot)
           w == WalkLevels(ConsumedSide(snapshot, side), 1, InitialWalk(order_size))
           avg_price == Rat(w.total_cost, w.total_shares)
       IN  IF SkipSnapshot(mid_price)
           THEN /\ impacts' = impacts
                /\ sims' = Append(sims,
                       [order_size |-> order_size, idx |-> idx, mid_price |-> mid_price,
                        walked |-> FALSE, remaining |-> order_size,
                        total_cost |-> 0, total_shares |-> 0, pushed |-> FALSE,
                        impact |-> RatInt(0)])
           ELSE /\ impacts' = IF Contributes(w.total_shares)
                              THEN Append(impacts, Impact(side, avg_price, mid_price))
                              ELSE impacts
                /\ sims' = Append(sims,
                       [order_size |-> order_size, idx |-> idx, mid_price |-> mid_price,
                        walked |-> TRUE, remaining |-> w.remaining,
                        total_cost |-> w.total_cost, total_shares |-> w.total_shares,
                        pushed |-> Contributes(w.total_shares),
                        impact |-> IF Contributes(w.total_shares)
                                   THEN Impact(side, avg_price, mid_price)
                                   ELSE RatInt(0)])
    /\ idx' = idx + 1
    /\ UNCHANGED << pc, caller, data, stats, snapshots, side, max_shares, order_size,
                    results, aggregates, buy_impact, sell_impact >>

\* after the last snapshot: the average of this order size, then the next size
Aggregate ==
    /\ pc = "inner"
    /\ idx > Len(snapshots)
    /\ results' = IF EmitCond(impacts) THEN Emit(results, order_size, impacts)
                  ELSE results
    /\ aggregates' = Append(aggregates, [order_size |-> order_size, impacts |-> impacts])
    /\ order_size' = NextSize(order_size)
    /\ impacts' = <<>>
    /\ idx' = 1
    /\ pc' = IF LoopCond(NextSize(order_size), max_shares) THEN "inner" ELSE "return"
    /\ UNCHANGED << caller, data, stats, snapshots, side, max_shares, sims,
                    buy_impact, sell_impact >>

\* return results; analyzeSymbol keeps the buy curve and calls again for "sell"
Return ==
    /\ pc = "return"
    /\ IF caller = "analyzeSymbol" /\ side = "buy"
       THEN /\ buy_impact' = results
            /\ EnterCurve(data, "sell", DefaultMaxShares)
            /\ UNCHANGED << caller, data, stats, sell_impact >>
       ELSE /\ pc' = "done"
            /\ sell_impact' = IF caller = "analyzeSymbol" THEN results ELSE sell_impact
            /\ UNCHANGED << caller, data, stats, snapshots, side, max_shares,
                            order_size, idx, impacts, results, sims, aggregates,
                            buy_impact >>

Next ==
    \/ LoadDirMissing
    \/ /\ pc \in {"start", "load"}
       /\ \E row \in Rows : LoadRow(row)
    \/ LoadDone
    \/ /\ pc = "start"
       /\ \E snaps \in CallerCollections, sd \in Sides, max \in MaxSharesVals :
              DirectCall(snaps, sd, max)
    \/ ProcessSnapshot
    \/ Aggregate
    \/ Return

Spec == Init /\ [][Next]_vars

\* the same program, for the properties of the whole curve
SpecCurve == Init /\ [][Next]_vars

(***************************************************************************)
(* What the specification says of a walk, written without the loop: the    *)
(* maximal leading run of valid levels, and the share of a target          *)
(* quantity that falls on each level of it.                                *)
(***************************************************************************)
\* the side the specification maps an order to: buy -> asks, sell -> bids
ClaimedSide(snapshot, sd) ==
    IF sd = "buy" THEN snapshot.asks ELSE snapshot.bids

\* the levels an entry of sims walked according to the specification
EntryLevels(e) == ClaimedSide(snapshots[e.idx], side)

\* length of the maximal leading run of valid levels
LeadLen(levels) ==
    CHOOSE n \in 0..Len(levels) :
        /\ \A i \in 1..n : isValid(levels[i])
        /\ n = Len(levels) \/ ~ isValid(levels[n + 1])

\* sum of the sizes of the first k levels
RECURSIVE PrefixSize(_, _)
PrefixSize(levels, k) ==
    IF k = 0 THEN 0 ELSE PrefixSize(levels, k - 1) + levels[k].size

\* filled = min(q, depth of the leading run)
ExpFilled(levels, q) == Min(q, PrefixSize(levels, LeadLen(levels)))

\* what level i gives to a target q: nothing behind the leading run
ExpTake(levels, q, i) ==
    IF i <= LeadLen(levels)
    THEN Max(0, Min(levels[i].size, q - PrefixSize(levels, i - 1)))
    ELSE 0

\* cost = sum of take x price over the first k levels
RECURSIVE ExpCost(_, _, _)
ExpCost(levels, q, k) ==
    IF k = 0 THEN 0
    ELSE ExpCost(levels, q, k - 1) + ExpTake(levels, q, k) * levels[k].price

\* the entries of sims whose walk ran (mid_price > 0)
Walked == { k \in 1..Len(sims) : sims[k].walked }

(***************************************************************************)
(* C1: for every snapshot, side (buy or sell) and target quantity, the     *)
(* walk takes min(remaining, size) level by level from the claimed side    *)
(* and stops at remaining = 0, at the first invalid level or at the end:   *)
(* filled = min(q, depth of the maximal leading run of valid levels),      *)
(* cost = sum of take x price, remaining = q - filled, and nothing behind  *)
(* an invalid level is consumed.  The scenario of the specification, at    *)
(* the sizes the code sweeps: asks (100, 5), (102, 6) and q = 10 give      *)
(* filled = 10 and cost = 5 x 100 + 5 x 102.                               *)
(***************************************************************************)
C1_LevelWalk ==
    side \in {"buy", "sell"} =>
        \A k \in Walked :
            LET e == sims[k]
                levels == EntryLevels(e)
            IN  /\ e.order_size > 0
                /\ e.total_shares = ExpFilled(levels, e.order_size)
                /\ e.total_cost = ExpCost(levels, e.order_size, Len(levels))
                /\ e.remaining = e.order_size - e.total_shares
                /\ e.pushed = (e.total_shares > 0)
                /\ (levels = << Level(100, 5), Level(102, 6) >> /\ e.order_size = 10)
                       => (e.total_shares = 10 /\ e.total_cost = 5 * 100 + 5 * 102)

\* a walk that stopped short at an invalid level with a valid level behind it
C1_Witness ==
    /\ side \in {"buy", "sell"}
    /\ \E k \in Walked :
           LET e == sims[k]
               levels == EntryLevels(e)
           IN  /\ e.total_shares > 0
               /\ e.total_shares < e.order_size
               /\ \E i, j \in 1..Len(levels) :
                      i < j /\ ~ isValid(levels[i]) /\ isValid(levels[j])

(***************************************************************************)
(* C2: a buy simulation does not read the bids and a sell simulation does  *)
(* not read the asks: two snapshots of the collection with the same asks   *)
(* give a buy of the same size the same filled quantity and the same cost  *)
(* (hence the same VWAP), whatever their bids; likewise for a sell and     *)
(* two snapshots with the same bids.                                       *)
(***************************************************************************)
C2_SideMapping ==
    \A j, k \in Walked :
        LET e1 == sims[j]
            e2 == sims[k]
            s1 == snapshots[e1.idx]
            s2 == snapshots[e2.idx]
        IN  (/\ e1.order_size = e2.order_size
             /\ \/ side = "buy" /\ s1.asks = s2.asks
                \/ side = "sell" /\ s1.bids = s2.bids)
            => /\ e1.total_shares = e2.total_shares
               /\ e1.total_cost = e2.total_cost
               /\ e1.remaining = e2.remaining

\* a buy over two snapshots that share their asks and differ in their bids
C2_Witness ==
    \E j, k \in Walked :
        /\ side = "buy"
        /\ sims[j].order_size = sims[k].order_size
        /\ snapshots[sims[j].idx].asks = snapshots[sims[k].idx].asks
        /\ snapshots[sims[j].idx].bids # snapshots[sims[k].idx].bids
        /\ sims[j].total_shares > 0
        /\ sims[j].total_shares = sims[k].total_shares

(***************************************************************************)
(* C3: for a fixed snapshot and side, filled is non-decreasing in the      *)
(* quantity, and filled <= min(quantity, total depth of that side) with    *)
(* the depth as getTotalBidDepth / getTotalAskDepth compute it.            *)
(***************************************************************************)
TotalDepth(snapshot, sd) ==
    IF sd = "buy" THEN getTotalAskDepth(snapshot) ELSE getTotalBidDepth(snapshot)

C3_FillMonotone ==
    side \in {"buy", "sell"} =>
        /\ \A k \in Walked :
               sims[k].total_shares
                   <= Min(sims[k].order_size, TotalDepth(snapshots[sims[k].idx], side))
        /\ \A j, k \in Walked :
               (sims[j].idx = sims[k].idx /\ sims[j].order_size <= sims[k].order_size)
                   => sims[j].total_shares <= sims[k].total_shares

(***************************************************************************)
(* The levels a walk consumed, by the closed form of C1.                   *)
(***************************************************************************)
\* indices of the levels that gave a positive take to the entry
Consumed(e) ==
    { i \in 1..Len(EntryLevels(e)) : ExpTake(EntryLevels(e), e.order_size, i) > 0 }

\* the last (worst) level consumed
WorstConsumed(e) == CHOOSE i \in Consumed(e) : \A j \in Consumed(e) : j <= i

ConsumedPrices(e) == { EntryLevels(e)[i].price : i \in Consumed(e) }
MinOf(S) == CHOOSE x \in S : \A y \in S : x <= y
MaxOf(S) == CHOOSE x \in S : \A y \in S : x >= y

\* lo <= cost / filled <= hi
VwapWithin(e, lo, hi) ==
    /\ lo * e.total_shares <= e.total_cost
    /\ e.total_cost <= hi * e.total_shares

\* the entries that reached impact normalization (mid > 0 and filled > 0)
Pushed == { k \in Walked : sims[k].pushed }

WalksUp(e) ==
    \A i, j \in Consumed(e) : i < j => EntryLevels(e)[i].price < EntryLevels(e)[j].price
WalksDown(e) ==
    \A i, j \in Consumed(e) : i < j => EntryLevels(e)[i].price > EntryLevels(e)[j].price

NonNegative(r) == RatLeq(RatInt(0), r)

C5_Original ==
    \A k \in Pushed :
        LET e == sims[k]
        IN  /\ (side = "buy" /\ WalksUp(e)) => NonNegative(e.impact)
            /\ (side = "sell" /\ WalksDown(e)) => NonNegative(e.impact)

(***************************************************************************)
(* C5 amended: the same, for snapshots whose best bid price is not above   *)
(* their best ask price (the book is not crossed), in exact arithmetic.    *)
(***************************************************************************)
Uncrossed(snapshot) == snapshot.bids[1].price <= snapshot.asks[1].price

C5_ImpactSign ==
    \A k \in Pushed :
        LET e == sims[k]
        IN  Uncrossed(snapshots[e.idx]) =>
                /\ (side = "buy" /\ WalksUp(e)) => NonNegative(e.impact)
                /\ (side = "sell" /\ WalksDown(e)) => NonNegative(e.impact)

\* a buy that walked up two strictly increasing asks of an uncrossed book and
\* paid more than the mid
C5_Witness ==
    \E k \in Pushed :
        LET e == sims[k]
        IN  /\ side = "buy"
            /\ Uncrossed(snapshots[e.idx])
            /\ Cardinality(Consumed(e)) >= 2
            /\ WalksUp(e)
            /\ RatLt(RatInt(0), e.impact)

(***************************************************************************)
(* C6: for a snapshot whose best bid b and best ask a are both valid       *)
(* levels, mid = (b.price + a.price) / 2; a snapshot whose best bid or     *)
(* best ask is missing or not valid contributes to no sample, for either   *)
(* side and every order size.                                              *)
(***************************************************************************)
BestValid(snapshot) ==
    /\ snapshot.bids # <<>>
    /\ snapshot.asks # <<>>
    /\ isValid(snapshot.bids[1])
    /\ isValid(snapshot.asks[1])

C6_MidAndExclusion ==
    \A k \in 1..Len(sims) :
        LET e == sims[k]
            s == snapshots[e.idx]
        IN  /\ BestValid(s) =>
                   /\ e.mid_price.d > 0
                   /\ 2 * e.mid_price.n = (s.bids[1].price + s.asks[1].price) * e.mid_price.d
            /\ ~ BestValid(s) => ~ e.pushed

(***************************************************************************)
(* The curve.                                                              *)
(***************************************************************************)
\* the requested step sequence 10, 20, ... up to max
StepSet(max) == { q \in FirstSize..max : (q - FirstSize) % StepSize = 0 }

SizesOf(seq) == [i \in 1..Len(seq) |-> seq[i].order_size]

HasImpacts(a) == a.impacts # <<>>

\* a call of the curve builder is running or has returned
InCall == caller # "none"

\* the call has left the outer loop
Returned == InCall /\ pc \in {"return", "done"}

(***************************************************************************)
(* C7: at every point during and after a curve build the emitted samples   *)
(* are strictly increasing in order_size (so no size occurs twice), every  *)
(* emitted size is one of 10, 20, ..., up to max_shares, and the emitted   *)
(* sizes are the sizes finished so far, in order, without exactly those    *)
(* whose accumulator was empty; once the build has returned the sizes      *)
(* finished are the whole step sequence.                                   *)
(***************************************************************************)
C7_CurveOrdering ==
    /\ \A i, j \in 1..Len(results) :
           i < j => results[i].order_size < results[j].order_size
    /\ \A i \in 1..Len(results) : results[i].order_size \in StepSet(max_shares)
    /\ SizesOf(aggregates) =
           [i \in 1..Len(aggregates) |-> FirstSize + StepSize * (i - 1)]
    /\ SizesOf(results) = SizesOf(SelectSeq(aggregates, HasImpacts))
    /\ Returned => { aggregates[i].order_size : i \in 1..Len(aggregates) }
                       = StepSet(max_shares)

\* a returned curve of at least two samples, the last at the last size requested
C7_Witness ==
    /\ Returned
    /\ Len(results) >= 2
    /\ results[Len(results)].order_size + StepSize > max_shares

(***************************************************************************)
(* C8: a sample for order size X is emitted if and only if at least one    *)
(* snapshot of the collection has mid > 0 and fills more than zero shares  *)
(* at X, a partial fill counting as a contribution; when none does, no     *)
(* sample is emitted for X, and no error is raised.  An empty collection   *)
(* yields an empty curve.                                                  *)
(***************************************************************************)
MidPositive(snapshot) == RatLt(RatInt(0), getMidPrice(snapshot))

FillsAt(snapshot, sd, q) ==
    MidPositive(snapshot) /\ ExpFilled(ClaimedSide(snapshot, sd), q) > 0

C8_SampleEmission ==
    /\ InCall => pc # "error"
    /\ (InCall /\ snapshots = <<>>) => results = <<>>
    /\ side \in {"buy", "sell"} =>
           \A k \in 1..Len(aggregates) :
               LET X == aggregates[k].order_size
               IN  (\E i \in 1..Len(results) : results[i].order_size = X)
                   <=> (\E i \in 1..Len(snapshots) : FillsAt(snapshots[i], side, X))

\* a sample emitted for a size that no snapshot could fill in full
C8_Witness ==
    /\ side \in {"buy", "sell"}
    /\ \E i \in 1..Len(results) :
           /\ \E j \in 1..Len(snapshots) :
                  FillsAt(snapshots[j], side, results[i].order_size)
           /\ \A j \in 1..Len(snapshots) :
                  ExpFilled(ClaimedSide(snapshots[j], side), results[i].order_size)
                      < results[i].order_size

(***************************************************************************)
(* C9 as stated: a call whose maximum size is below the minimum size       *)
(* (max_shares < 10, zero and negative included) ends in an error and      *)
(* never returns a curve normally.                                         *)
(***************************************************************************)
Malformed == InCall /\ max_shares < FirstSize

C9_Original == Malformed => pc \notin {"return", "done"}

(***************************************************************************)
(* C9 amended: a call with max_shares < 10 (zero and negative included)    *)
(* raises no error; the loop body never runs and the call returns an       *)
(* empty curve.                                                            *)
(***************************************************************************)
C9_EmptyCurve ==
    Malformed =>
        /\ pc \in {"return", "done"}
        /\ results = <<>>
        /\ sims = <<>>
        /\ aggregates = <<>>

\* a returned call with max_shares < 10 over a snapshot that has liquidity
C9_Witness ==
    /\ Malformed
    /\ pc = "done"
    /\ \E i \in 1..Len(snapshots) :
           BestValid(snapshots[i]) /\ FillsAt(snapshots[i], side, FirstSize)

(***************************************************************************)
(* C10: every snapshot loadData stores has a valid best bid and a valid    *)
(* best ask: bids[0] and asks[0] both have price > 0 and size > 0.         *)
(***************************************************************************)
C10_IngestionFilter ==
    \A i \in 1..Len(data) : isValid(data[i].bids[1]) /\ isValid(data[i].asks[1])

(***************************************************************************)
(* The curve as a function of the arguments of the call, written without   *)
(* the loops: the impact a snapshot contributes at a size, the impacts of  *)
(* a size in the order of the collection, and the samples.                 *)
(***************************************************************************)
\* (vwap - mid) / mid for a buy and (mid - vwap) / mid otherwise, as one
\* fraction of cost c, filled f and twice the mid m2
ImpactFraction(sd, c, f, m2) ==
    IF sd = "buy" THEN Rat(2 * c - m2 * f, m2 * f)
    ELSE Rat(m2 * f - 2 * c, m2 * f)

\* the impact of a snapshot at size q, with vwap = cost / filled of the
\* closed form and mid = (best bid + best ask) / 2
ExpImpact(snapshot, sd, q) ==
    ImpactFraction(sd,
        ExpCost(ClaimedSide(snapshot, sd), q, Len(ClaimedSide(snapshot, sd))),
        ExpFilled(ClaimedSide(snapshot, sd), q),
        snapshot.bids[1].price + snapshot.asks[1].price)

\* the impacts of the snapshots that fill at q, in the order of the collection
RECURSIVE ExpImpacts(_, _, _)
ExpImpacts(snaps, sd, q) ==
    IF snaps = <<>> THEN <<>>
    ELSE IF FillsAt(snaps[1], sd, q)
    THEN << ExpImpact(snaps[1], sd, q) >> \o ExpImpacts(Tail(snaps), sd, q)
    ELSE ExpImpacts(Tail(snaps), sd, q)

\* the sample of size q from its impacts
Sample(q, imps) ==
    [order_size |-> q,
     avg_impact |-> RatDiv(RatSum(imps), RatInt(Len(imps))),
     impact_bps |-> RatMul(RatDiv(RatSum(imps), RatInt(Len(imps))), RatInt(BpsFactor))]

SampleIfAny(q, imps) == IF imps = <<>> THEN <<>> ELSE << Sample(q, imps) >>

\* the samples of the sizes q, q + StepSize, ... up to max
RECURSIVE ExpCurveFrom(_, _, _, _)
ExpCurveFrom(snaps, sd, max, q) ==
    IF q > max THEN <<>>
    ELSE SampleIfAny(q, ExpImpacts(snaps, sd, q))
             \o ExpCurveFrom(snaps, sd, max, q + StepSize)

ExpCurve(snaps, sd, max) == ExpCurveFrom(snaps, sd, max, FirstSize)

\* the collection in another order
Permuted(snaps, p) == [i \in 1..Len(snaps) |-> snaps[p[i]]]
Orders(snaps) == Permutations(1..Len(snaps))

\* how often each value occurs in a sequence
BagOf(seq) ==
    [v \in { seq[i] : i \in 1..Len(seq) } |->
        Cardinality({ i \in 1..Len(seq) : seq[i] = v })]

(***************************************************************************)
(* C11: the curve is a function of the arguments of the call (the          *)
(* collection, the side, and max_shares) and of no order of processing:    *)
(* the impacts accumulated for every size and the curve a call returns     *)
(* are those the closed form gives for these arguments, so a second run on *)
(* the same arguments returns the same curve; and for every permutation of *)
(* the collection the closed form gives, for each size, the multiset of    *)
(* impacts the call holds when it returns (hence the same emitted sizes    *)
(* and, in exact arithmetic, the same mean).                               *)
(***************************************************************************)
C11_Deterministic ==
    (Returned /\ side \in {"buy", "sell"}) =>
        /\ results = ExpCurve(snapshots, side, max_shares)
        /\ \A k \in 1..Len(aggregates) :
               aggregates[k].impacts
                   = ExpImpacts(snapshots, side, aggregates[k].order_size)
        /\ pc = "return" =>
               \A p \in Orders(snapshots) :
                   \A k \in 1..Len(aggregates) :
                       BagOf(ExpImpacts(Permuted(snapshots, p), side,
                                        aggregates[k].order_size))
                           = BagOf(aggregates[k].impacts)

\* a returned curve over two snapshots that contribute different impacts
C11_Witness ==
    /\ Returned
    /\ side \in {"buy", "sell"}
    /\ results # <<>>
    /\ \E k \in 1..Len(aggregates) :
           /\ Len(aggregates[k].impacts) >= 2
           /\ aggregates[k].impacts[1] # aggregates[k].impacts[2]

(***************************************************************************)
(* C12: whether a snapshot contributes does not depend on the order size:  *)
(* it contributes exactly when its mid is positive and the first level of  *)
(* the consumed side is valid, every order size of the loop being          *)
(* >= 10 > 0.  So every size of a call has the same number of              *)
(* contributions, and the curve holds either every size finished so far or *)
(* none: on return every size 10, 20, ..., up to max_shares or no sample   *)
(* at all, with no gap inside and no truncation at the sizes beyond the    *)
(* available depth.                                                        *)
(***************************************************************************)
FirstLevelValid(levels) == levels # <<>> /\ isValid(levels[1])

C12_AllOrNothing ==
    InCall =>
        /\ \A k \in 1..Len(sims) :
               /\ sims[k].order_size >= FirstSize
               /\ sims[k].pushed <=>
                      /\ MidPositive(snapshots[sims[k].idx])
                      /\ FirstLevelValid(EntryLevels(sims[k]))
        /\ \A j, k \in 1..Len(sims) :
               sims[j].idx = sims[k].idx => sims[j].pushed = sims[k].pushed
        /\ \A j, k \in 1..Len(aggregates) :
               Len(aggregates[j].impacts) = Len(aggregates[k].impacts)
        /\ Len(results) \in {0, Len(aggregates)}
        /\ Returned =>
               \/ results = <<>>
               \/ { results[i].order_size : i \in 1..Len(results) }
                      = StepSet(max_shares)

\* a returned curve with a sample at every size, the last size beyond what
\* any snapshot of the collection can fill
C12_Witness ==
    /\ Returned
    /\ Len(results) >= 2
    /\ Len(results) = Len(aggregates)
    /\ \A i \in 1..Len(snapshots) :
           ExpFilled(ClaimedSide(snapshots[i], side), results[Len(results)].order_size)
               < results[Len(results)].order_size

(***************************************************************************)
(* C13: a side that is not the exact string "buy" is treated as "sell":    *)
(* the bids are walked, impact = (mid - vwap) / mid, the curve returned is *)
(* the curve of side "sell" for the same collection and max_shares, and no *)
(* error is raised.                                                        *)
(***************************************************************************)
C13_SideFallback ==
    (InCall /\ side # "buy") =>
        /\ pc # "error"
        /\ \A k \in Walked :
               LET e == sims[k]
                   s == snapshots[e.idx]
               IN  /\ e.total_shares = ExpFilled(s.bids, e.order_size)
                   /\ e.total_cost = ExpCost(s.bids, e.order_size, Len(s.bids))
                   /\ e.pushed => e.impact = ExpImpact(s, "sell", e.order_size)
        /\ Returned => results = ExpCurve(snapshots, "sell", max_shares)

\* a returned, non-empty curve of a side that is neither "buy" nor "sell",
\* over a snapshot whose asks would have filled differently from its bids
C13_Witness ==
    /\ Returned
    /\ side \notin {"buy", "sell"}
    /\ results # <<>>
    /\ \E i \in 1..Len(snapshots) :
           ExpFilled(snapshots[i].asks, FirstSize) # ExpFilled(snapshots[i].bids, FirstSize)

====
